---------------------------- MODULE Spec2Model ----------------------------
(***************************************************************************)
(* Treasury risk engine (src/src/lib/fx-calculations.ts): the exported    *)
(* functions of the FX calculation library, applied to bounded inputs     *)
(* (specification Spec), and the dashboard page that drives them          *)
(* (src/unnamed/part_001, component Index; specification PageSpec).       *)
(*                                                                         *)
(* Numbers.  A JavaScript number is modelled as an extended rational      *)
(* [n, d]: a finite value n/d in lowest terms with d > 0, or one of the   *)
(* IEEE-754 special values d = 0: NaN = 0/0, +Infinity = 1/0,             *)
(* -Infinity = -1/0.  Division by zero, 0 * Infinity, Infinity - Infinity *)
(* and NaN propagation follow IEEE-754 as the JavaScript operators and    *)
(* Math.min / Math.max / Math.abs do.  Rounding to 53 bits and the sign   *)
(* of zero are not modelled: finite arithmetic is exact, and x / 0 for    *)
(* x # 0 takes the sign of x.                                             *)
(***************************************************************************)
EXTENDS Integers, Sequences, FiniteSets

VARIABLES
    call,   \* the library call being made: the function's name and its arguments
    ret,    \* the value the call returned
    pc,     \* "call" before the function has run, "return" after
    \* the dashboard page (component Index), as of its last render
    parameters,    \* useState: the five risk parameters
    tradesState,   \* useState: trades, the trade batch
    riskMetrics,   \* useState: Null or the metrics of the last completed run
    isLoading,     \* useState
    riskScenario,  \* useMemo: the scenario memoized for the parameters
    deps,          \* the dependency values the two effects last ran with
    timers,        \* the runSimulation calls waiting in their delay, oldest first
    events         \* how many times a control of the panel has been used

libVars == <<call, ret, pc>>

pageVars ==
    <<parameters, tradesState, riskMetrics, isLoading, riskScenario, deps, timers, events>>

vars == <<call, ret, pc, parameters, tradesState, riskMetrics, isLoading, riskScenario,
          deps, timers, events>>

---------------------------------------------------------------------------
(* Bounds of the model *)

\* longest trade list handed to the calculators
MaxTrades == 2
\* generateFXTrades is called with counts 1..MaxCount and BigCount
MaxCount == 3
BigCount == 1001
\* clock ticks per day (the source counts milliseconds, 24 * 60 * 60 * 1000)
TicksPerDay == 4
\* the number grid holds the halves -MaxNum/2 .. MaxNum/2
MaxNum == 3
\* the page's batches are scaled down: TradesPerFifty trades stand for the 50
\* trades of the smallest batch the trade-count slider offers
TradesPerFifty == 1
\* the page is followed through MaxEvents moves of its controls
MaxEvents == 3

---------------------------------------------------------------------------
(* JavaScript number arithmetic *)

AbsInt(k) == IF k < 0 THEN -k ELSE k

SignInt(k) == IF k < 0 THEN -1 ELSE IF k > 0 THEN 1 ELSE 0

RECURSIVE GCD(_, _)
GCD(a, b) == IF b = 0 THEN a ELSE GCD(b, a % b)

\* the number n/d (d > 0) in lowest terms
R(n, d) ==
    LET g == GCD(AbsInt(n), d)
    IN  [n |-> n \div g, d |-> d \div g]

NaN == [n |-> 0, d |-> 0]
PosInf == [n |-> 1, d |-> 0]
NegInf == [n |-> -1, d |-> 0]
Zero == [n |-> 0, d |-> 1]
One == [n |-> 1, d |-> 1]

\* the infinity of sign s, NaN for s = 0
Inf(s) == [n |-> SignInt(s), d |-> 0]

IsNaN(x) == x.d = 0 /\ x.n = 0
IsFinite(x) == x.d # 0
IsInf(x) == x.d = 0 /\ x.n # 0
IsZero(x) == x.d # 0 /\ x.n = 0

\* unary -
Neg(x) == [n |-> -x.n, d |-> x.d]

\* x + y
Add(x, y) ==
    IF IsNaN(x) \/ IsNaN(y) THEN NaN
    ELSE IF IsInf(x) /\ IsInf(y) THEN (IF x.n = y.n THEN x ELSE NaN)
    ELSE IF IsInf(x) THEN x
    ELSE IF IsInf(y) THEN y
    ELSE LET g == GCD(x.d, y.d)
         IN  R(x.n * (y.d \div g) + y.n * (x.d \div g), (x.d \div g) * y.d)

\* x - y
Sub(x, y) == Add(x, Neg(y))

\* x * y
Mul(x, y) ==
    IF IsNaN(x) \/ IsNaN(y) THEN NaN
    ELSE IF IsInf(x) \/ IsInf(y) THEN Inf(x.n * y.n)
    ELSE LET g1 == GCD(AbsInt(x.n), y.d)
             g2 == GCD(AbsInt(y.n), x.d)
         IN  IF x.n = 0 \/ y.n = 0 THEN Zero
             ELSE [n |-> (x.n \div g1) * (y.n \div g2),
                   d |-> (x.d \div g2) * (y.d \div g1)]

\* x / y
Div(x, y) ==
    IF IsNaN(x) \/ IsNaN(y) THEN NaN
    ELSE IF IsInf(y) THEN (IF IsInf(x) THEN NaN ELSE Zero)
    ELSE IF IsZero(y) THEN Inf(x.n)
    ELSE IF IsInf(x) THEN Inf(x.n * y.n)
    ELSE Mul(x, [n |-> SignInt(y.n) * y.d, d |-> AbsInt(y.n)])

\* x < y (false when either is NaN)
Lt(x, y) ==
    IF IsNaN(x) \/ IsNaN(y) THEN FALSE
    ELSE IF IsInf(x) \/ IsInf(y)
         THEN (IF IsInf(x) THEN x.n ELSE 0) < (IF IsInf(y) THEN y.n ELSE 0)
              \/ (IsInf(x) /\ x.n < 0 /\ IsFinite(y))
              \/ (IsInf(y) /\ y.n > 0 /\ IsFinite(x))
    ELSE x.n * y.d < y.n * x.d

\* x <= y (false when either is NaN)
Leq(x, y) == ~IsNaN(x) /\ ~IsNaN(y) /\ ~Lt(y, x)

\* x > y
Gt(x, y) == Lt(y, x)

MathAbs(x) == [n |-> AbsInt(x.n), d |-> x.d]

MathMin(x, y) ==
    IF IsNaN(x) \/ IsNaN(y) THEN NaN ELSE IF Lt(y, x) THEN y ELSE x

MathMax(x, y) ==
    IF IsNaN(x) \/ IsNaN(y) THEN NaN ELSE IF Lt(x, y) THEN y ELSE x

\* Math.floor of a finite number
MathFloor(x) == R(x.n \div x.d, 1)

\* the largest s with s * s dividing m (m > 0)
SquarePart(m) ==
    CHOOSE s \in 1..m :
        /\ s * s <= m
        /\ m % (s * s) = 0
        /\ \A t \in (s + 1)..m : t * t <= m => m % (t * t) # 0

\* Math.sqrt.  The root of a/b is kept exactly as q * sqrt(r), q a number
\* and r a square-free integer: sqrt(a/b) = (s/b) * sqrt(r) when a*b = s*s*r.
MathSqrt(x) ==
    IF IsNaN(x) \/ x.n < 0 THEN [q |-> NaN, r |-> 1]
    ELSE IF IsInf(x) THEN [q |-> PosInf, r |-> 1]
    ELSE IF x.n = 0 THEN [q |-> Zero, r |-> 1]
    ELSE LET m == x.n * x.d
             s == SquarePart(m)
         IN  [q |-> R(s, x.d), r |-> m \div (s * s)]

\* c * (q * sqrt(r)); a zero or non-finite product carries no radical
MulSqrt(v, c) ==
    LET p == Mul(v.q, c)
    IN  [q |-> p, r |-> IF IsFinite(p) /\ p.n # 0 THEN v.r ELSE 1]

\* (q1 * sqrt(r)) / (q2 * sqrt(r))
DivSqrt(v, w) == IF v.r = w.r THEN Div(v.q, w.q) ELSE NaN

---------------------------------------------------------------------------
(* src/src/lib/fx-calculations.ts *)

DigitChars == <<"0", "1", "2", "3", "4", "5", "6", "7", "8", "9">>

\* Number.prototype.toString of a non-negative integer, one character each
RECURSIVE NumberToString(_)
NumberToString(i) ==
    IF i < 10 THEN <<DigitChars[i + 1]>>
    ELSE Append(NumberToString(i \div 10), DigitChars[(i % 10) + 1])

\* mutant: the padded string is also cut to targetLength, as slice(-3) would
PadStart_Cut(s, targetLength, fill) ==
    LET padded == [k \in 1..targetLength |-> fill] \o s
    IN  SubSeq(padded, Len(padded) - targetLength + 1, Len(padded))

\* String.prototype.padStart with a one-character fill
RECURSIVE PadStart(_, _, _)
PadStart(s, targetLength, fill) ==
    IF Len(s) >= targetLength THEN s
    ELSE PadStart(<<fill>> \o s, targetLength, fill)

\* `FX-${i.toString().padStart(3, '0')}`
TradeId(i) == <<"F", "X", "-">> \o PadStart(NumberToString(i), 3, "0")

\* Math.random(): the k-th draw (k = 0, 1, ...) of a stream of period Len(seed)
MathRandom(seed, k) == seed[(k % Len(seed)) + 1]

\* Date.now(): the j-th reading (j = 0, 1, ...) of the clock.  Each pass of the
\* loop reads it twice: the clock moves by clock.within from the first reading
\* of a pass to the second and by clock.between from there to the next pass.
DateNow(clock, j) ==
    R(clock.start + (j \div 2) * (clock.within + clock.between)
                  + (j % 2) * clock.within, 1)

\* new Date(value): the time value cut to a whole tick (TimeClip)
NewDate(value) ==
    IF value.n < 0 THEN -((-value.n) \div value.d) ELSE value.n \div value.d

\* one pass of the loop body, i = 0, 1, ...: four draws and two clock readings
GeneratedTrade(i, seed, clock) ==
    LET baseNotional ==
            Add(R(50000, 1), Mul(MathRandom(seed, 4 * i), R(2000000, 1)))
        direction ==
            IF Gt(MathRandom(seed, 4 * i + 1), R(1, 2)) THEN "long" ELSE "short"
        daysToMaturity ==
            Add(MathFloor(Mul(MathRandom(seed, 4 * i + 2), R(365, 1))), R(30, 1))
    IN  [id |-> TradeId(i),
         notionalUSD |-> baseNotional,
         tradeDate |->
             NewDate(Sub(DateNow(clock, 2 * i),
                         Mul(MathRandom(seed, 4 * i + 3), R(90 * TicksPerDay, 1)))),
         maturityDate |->
             NewDate(Add(DateNow(clock, 2 * i + 1),
                         Mul(daysToMaturity, R(TicksPerDay, 1)))),
         direction |-> direction]

generateFXTrades(count, seed, clock) ==
    [k \in 1..count |-> GeneratedTrade(k - 1, seed, clock)]

\* mutant: the time to maturity is left out of the adjustment
calculateShockedFXRate_NoTime(currentRate, interestRateShockBps, timeToMaturity) ==
    LET shockDecimal == Div(interestRateShockBps, R(10000, 1))
    IN  Mul(currentRate, Add(One, shockDecimal))

calculateShockedFXRate(currentRate, interestRateShockBps, timeToMaturity) ==
    LET shockDecimal == Div(interestRateShockBps, R(10000, 1))
    IN  Mul(currentRate, Add(One, Mul(shockDecimal, timeToMaturity)))

\* mutant: a short trade is signed like a long one
TradePnL_Unsigned(trade, currentRate, shockedRate) ==
    Mul(trade.notionalUSD, Sub(shockedRate, currentRate))

\* the reducer's callback
TradePnL(trade, currentRate, shockedRate) ==
    LET rateDelta == Sub(shockedRate, currentRate)
    IN  IF trade.direction = "long"
        THEN Mul(trade.notionalUSD, rateDelta)
        ELSE Mul(Neg(trade.notionalUSD), rateDelta)

\* trades.reduce(..., totalPnL) from the left
RECURSIVE ReducePnL(_, _, _, _)
ReducePnL(trades, totalPnL, currentRate, shockedRate) ==
    IF trades = <<>> THEN totalPnL
    ELSE ReducePnL(Tail(trades),
                   Add(totalPnL, TradePnL(Head(trades), currentRate, shockedRate)),
                   currentRate, shockedRate)

\* mutant: the reducer returns tradePnL and drops the running total
calculateUnhedgedPnL_LastOnly(trades, currentRate, shockedRate) ==
    IF trades = <<>> THEN Zero
    ELSE TradePnL(trades[Len(trades)], currentRate, shockedRate)

calculateUnhedgedPnL(trades, currentRate, shockedRate) ==
    ReducePnL(trades, Zero, currentRate, shockedRate)

calculateHedgeCost(notionalUSD, forwardRate, spotRate, hedgeRatio) ==
    LET forwardPoints == Sub(forwardRate, spotRate)
    IN  Mul(Mul(notionalUSD, hedgeRatio), forwardPoints)

\* mutant: the cost penalty is the hedge cost itself, not divided by the exposure
calculateOptimalHedgeRatio_RawCost(totalExposure, expectedVolatility, hedgeCost, riskAversion) ==
    LET costPenalty == MathAbs(hedgeCost)
        volatilityBenefit == Mul(expectedVolatility, riskAversion)
        optimalRatio ==
            MathMin(One, Div(volatilityBenefit, Add(volatilityBenefit, costPenalty)))
    IN  MathMax(Zero, optimalRatio)

\* mutant: the cost penalty, not the volatility benefit, is the numerator
calculateOptimalHedgeRatio_Swapped(totalExposure, expectedVolatility, hedgeCost, riskAversion) ==
    LET costPenalty == Div(MathAbs(hedgeCost), totalExposure)
        volatilityBenefit == Mul(expectedVolatility, riskAversion)
        optimalRatio ==
            MathMin(One, Div(costPenalty, Add(volatilityBenefit, costPenalty)))
    IN  MathMax(Zero, optimalRatio)

calculateOptimalHedgeRatio(totalExposure, expectedVolatility, hedgeCost, riskAversion) ==
    LET costPenalty == Div(MathAbs(hedgeCost), totalExposure)
        volatilityBenefit == Mul(expectedVolatility, riskAversion)
        optimalRatio ==
            MathMin(One, Div(volatilityBenefit, Add(volatilityBenefit, costPenalty)))
    IN  MathMax(Zero, optimalRatio)

\* mutant: confidenceLevel >= 0.95 in place of === 0.95
ZScore_AtLeast(confidenceLevel) ==
    IF Leq(R(95, 100), confidenceLevel) THEN R(1645, 1000) ELSE R(233, 100)

ZScore(confidenceLevel) ==
    IF confidenceLevel = R(95, 100) THEN R(1645, 1000) ELSE R(233, 100)

calculateVaR(totalExposure, volatility, confidenceLevel, timeHorizon) ==
    LET zScore == ZScore(confidenceLevel)
        scaledVolatility ==
            MulSqrt(MathSqrt(Div(timeHorizon, R(252, 1))), volatility)
    IN  MulSqrt(MulSqrt(scaledVolatility, totalExposure), zScore)

\* trades.reduce((sum, trade) => sum + trade.notionalUSD, sum)
RECURSIVE ReduceNotional(_, _)
ReduceNotional(trades, sum) ==
    IF trades = <<>> THEN sum
    ELSE ReduceNotional(Tail(trades), Add(sum, Head(trades).notionalUSD))

\* mutant: the forward rate is taken at the default maturity of one year
calculateRiskMetrics_YearForward(trades, scenario) ==
    LET totalExposureUSD == ReduceNotional(trades, Zero)
        unhedgedPnL ==
            calculateUnhedgedPnL(trades, scenario.currentFXRate, scenario.shockedFXRate)
        forwardRate ==
            calculateShockedFXRate(scenario.currentFXRate, scenario.interestRateShock, One)
        hedgeCost ==
            calculateHedgeCost(totalExposureUSD, forwardRate, scenario.currentFXRate, One)
        optimalHedgeRatio ==
            calculateOptimalHedgeRatio(totalExposureUSD, scenario.volatility, hedgeCost,
                                       R(1, 2))
    IN  [totalExposureUSD |-> totalExposureUSD,
         totalPnL |-> unhedgedPnL,
         unhedgedPnL |-> unhedgedPnL,
         hedgedPnL |-> Sub(Mul(unhedgedPnL, Sub(One, optimalHedgeRatio)),
                           Mul(hedgeCost, optimalHedgeRatio)),
         optimalHedgeRatio |-> optimalHedgeRatio,
         hedgeCost |-> hedgeCost,
         valueAtRisk |->
             calculateVaR(totalExposureUSD, scenario.volatility, R(95, 100), One)]

calculateRiskMetrics(trades, scenario) ==
    LET totalExposureUSD == ReduceNotional(trades, Zero)
        unhedgedPnL ==
            calculateUnhedgedPnL(trades, scenario.currentFXRate, scenario.shockedFXRate)
        forwardRate ==
            calculateShockedFXRate(scenario.currentFXRate, scenario.interestRateShock,
                                   R(1, 4))
        hedgeCost ==
            calculateHedgeCost(totalExposureUSD, forwardRate, scenario.currentFXRate, One)
        optimalHedgeRatio ==
            calculateOptimalHedgeRatio(totalExposureUSD, scenario.volatility, hedgeCost,
                                       R(1, 2))
        hedgedPnL ==
            Sub(Mul(unhedgedPnL, Sub(One, optimalHedgeRatio)),
                Mul(hedgeCost, optimalHedgeRatio))
        valueAtRisk ==
            calculateVaR(totalExposureUSD, scenario.volatility, R(95, 100), One)
    IN  [totalExposureUSD |-> totalExposureUSD,
         totalPnL |-> unhedgedPnL,
         unhedgedPnL |-> unhedgedPnL,
         hedgedPnL |-> hedgedPnL,
         optimalHedgeRatio |-> optimalHedgeRatio,
         hedgeCost |-> hedgeCost,
         valueAtRisk |-> valueAtRisk]

\* one pass of the loop body, i = 0..steps
SensitivityPoint(trades, baseRate, shockRange, i, steps) ==
    LET rate ==
            Add(Sub(baseRate, shockRange),
                Div(Mul(Mul(R(2, 1), shockRange), R(i, 1)), R(steps, 1)))
        pnl == calculateUnhedgedPnL(trades, baseRate, rate)
        hedgedPnl == Mul(pnl, R(3, 10))
    IN  [fxRate |-> rate,
         pnl |-> Div(pnl, R(1000000, 1)),
         hedgedPnl |-> Div(hedgedPnl, R(1000000, 1))]

\* mutant: the loop runs while i < steps
generatePnLSensitivity_Short(trades, baseRate, shockRange) ==
    LET steps == 50
    IN  [k \in 1..steps |->
            SensitivityPoint(trades, baseRate, shockRange, k - 1, steps)]

generatePnLSensitivity(trades, baseRate, shockRange) ==
    LET steps == 50
    IN  [k \in 1..(steps + 1) |->
            SensitivityPoint(trades, baseRate, shockRange, k - 1, steps)]

---------------------------------------------------------------------------
(* Inputs *)

\* the finite numbers n/2 with |n| <= MaxNum
Grid == {R(n, 2) : n \in -MaxNum..MaxNum}

PositiveGrid == {x \in Grid : x.n > 0}

NonNegativeGrid == {x \in Grid : x.n >= 0}

\* spot rates: the dashboard's 4.65 and grid values
Rates == PositiveGrid \cup {R(465, 100)}

\* interest-rate shocks, basis points
Shocks == {R(-200, 1), Zero, R(200, 1)}

\* time fractions, years: none, 30 days, a quarter, the default of one year
TimeFractions == {Zero, R(30, 365), R(1, 4), One}

Volatilities == {Zero, R(15, 100)}

Notionals == {R(50000, 1), R(1000000, 1), R(2000000, 1)}

Directions == {"long", "short"}

\* the trade lists of up to MaxTrades trades, ids by position as generated
TradeLists ==
    UNION {
        { [k \in 1..len |->
              [id |-> TradeId(k - 1),
               notionalUSD |-> pick[k][1],
               tradeDate |-> 0,
               maturityDate |-> 30 * TicksPerDay,
               direction |-> pick[k][2]]] :
          pick \in [1..len -> Notionals \X Directions] } :
        len \in 0..MaxTrades }

Scenarios ==
    [currentFXRate : {R(465, 100), R(4, 1)},
     shockedFXRate : {R(47, 10), R(4, 1)},
     interestRateShock : Shocks,
     volatility : Volatilities]

ConfidenceLevels == {R(95, 100), R(99, 100), R(9, 10), Zero, R(-1, 1), R(3, 2)}

\* horizons in days: grid values and the perfect-square fractions of 252
TimeHorizons == Grid \cup {R(7, 1), R(63, 1), R(252, 1)}

\* step counts a caller may ask for; the function declares no such parameter
\* and JavaScript drops the extra argument
StepCounts == {10, 50}

\* values Math.random() may return, all in [0, 1)
RandomValues == {Zero, R(1, 2), R(999, 1000)}

\* the random source's streams: every stream of period 1 and of period 3
Seeds == [1..1 -> RandomValues] \cup [1..3 -> RandomValues]

\* ticks from one clock reading to the next.  Date.now() is the system's wall
\* clock: it may stand still between two readings and may be set back.
ClockSteps == {-30 * TicksPerDay, 1 - 30 * TicksPerDay, 0, 1}

\* the clock: a first reading and its steps within and between loop passes
Clocks == [start : {20000 * TicksPerDay}, within : ClockSteps, between : ClockSteps]

Counts == (1..MaxCount) \cup {BigCount}

Calls ==
    [fn : {"generateFXTrades"}, count : Counts, seed : Seeds, clock : Clocks]
    \cup [fn : {"calculateShockedFXRate"}, currentRate : Grid \cup Rates,
          interestRateShockBps : Grid \cup Shocks, timeToMaturity : Grid \cup TimeFractions]
    \cup [fn : {"calculateUnhedgedPnL"}, trades : TradeLists,
          currentRate : {One, R(465, 100)}, shockedRate : Rates]
    \cup [fn : {"calculateHedgeCost"}, notionalUSD : NonNegativeGrid,
          forwardRate : Grid, spotRate : Grid, hedgeRatio : {Zero, R(1, 2), One}]
    \cup [fn : {"calculateOptimalHedgeRatio"}, totalExposure : Grid,
          expectedVolatility : Grid, hedgeCost : Grid, riskAversion : Grid]
    \cup [fn : {"calculateVaR"}, totalExposure : Grid, volatility : Grid,
          confidenceLevel : ConfidenceLevels, timeHorizon : TimeHorizons]
    \cup [fn : {"calculateRiskMetrics"}, trades : TradeLists, scenario : Scenarios]
    \cup [fn : {"generatePnLSensitivity"}, trades : TradeLists,
          baseRate : {R(1, 2), One, R(465, 100)}, shockRange : {R(1, 10), R(1, 2)},
          stepCount : StepCounts]

---------------------------------------------------------------------------
(* The dashboard page: its state and what the controls can set *)

\* useState's initial parameters, and what resetParameters restores
DefaultParameters ==
    [currentFXRate |-> R(465, 100),
     interestRateShock |-> R(200, 1),
     volatility |-> R(15, 100),
     numberOfTrades |-> 2 * TradesPerFifty,
     timeHorizon |-> R(30, 1)]

\* values the controls of ParametersPanel can hand to onParameterChange: the
\* default and one more position of each slider (3.5..5.5, -500..500,
\* 0.05..0.5) and of the horizon input (1..365); batches of 50, 100 and 150
Settings ==
    [currentFXRate |-> {R(465, 100), R(4, 1)},
     interestRateShock |-> {R(200, 1), R(-200, 1)},
     volatility |-> {R(15, 100), R(3, 10)},
     numberOfTrades |-> {TradesPerFifty, 2 * TradesPerFifty, 3 * TradesPerFifty},
     timeHorizon |-> {R(30, 1), R(365, 1)}]

\* riskMetrics before any run and after a reset
Null == [null |-> TRUE]

\* the body of the riskScenario memo
ComputeRiskScenario(params) ==
    LET shockedRate ==
            calculateShockedFXRate(params.currentFXRate, params.interestRateShock,
                                   Div(params.timeHorizon, R(365, 1)))
    IN  [currentFXRate |-> params.currentFXRate,
         shockedFXRate |-> shockedRate,
         interestRateShock |-> params.interestRateShock,
         volatility |-> params.volatility]

\* the random streams and the clock behind the page's batches
BatchSeeds == {<<Zero>>, <<R(1, 2)>>}

BatchClock == [start |-> 20000 * TicksPerDay, within |-> 0, between |-> 1]

\* the page as constructed: the first render, no effect run yet
Unmounted ==
    /\ parameters = DefaultParameters
    /\ tradesState = <<>>
    /\ riskMetrics = Null
    /\ isLoading = FALSE
    /\ riskScenario = ComputeRiskScenario(DefaultParameters)
    /\ deps = <<>>
    /\ timers = <<>>
    /\ events = 0

---------------------------------------------------------------------------
(* The library under call: one call per behaviour, drawn by Init *)

Init ==
    /\ call \in Calls
    /\ ret = Zero
    /\ pc = "call"
    /\ Unmounted

Call_generateFXTrades ==
    /\ pc = "call"
    /\ call.fn = "generateFXTrades"
    /\ ret' = generateFXTrades(call.count, call.seed, call.clock)
    /\ pc' = "return"
    /\ UNCHANGED <<call, pageVars>>

Call_calculateShockedFXRate ==
    /\ pc = "call"
    /\ call.fn = "calculateShockedFXRate"
    /\ ret' = calculateShockedFXRate(call.currentRate, call.interestRateShockBps,
                                     call.timeToMaturity)
    /\ pc' = "return"
    /\ UNCHANGED <<call, pageVars>>

Call_calculateUnhedgedPnL ==
    /\ pc = "call"
    /\ call.fn = "calculateUnhedgedPnL"
    /\ ret' = calculateUnhedgedPnL(call.trades, call.currentRate, call.shockedRate)
    /\ pc' = "return"
    /\ UNCHANGED <<call, pageVars>>

Call_calculateHedgeCost ==
    /\ pc = "call"
    /\ call.fn = "calculateHedgeCost"
    /\ ret' = calculateHedgeCost(call.notionalUSD, call.forwardRate, call.spotRate,
                                 call.hedgeRatio)
    /\ pc' = "return"
    /\ UNCHANGED <<call, pageVars>>

Call_calculateOptimalHedgeRatio ==
    /\ pc = "call"
    /\ call.fn = "calculateOptimalHedgeRatio"
    /\ ret' = calculateOptimalHedgeRatio(call.totalExposure, call.expectedVolatility,
                                         call.hedgeCost, call.riskAversion)
    /\ pc' = "return"
    /\ UNCHANGED <<call, pageVars>>

Call_calculateVaR ==
    /\ pc = "call"
    /\ call.fn = "calculateVaR"
    /\ ret' = calculateVaR(call.totalExposure, call.volatility, call.confidenceLevel,
                           call.timeHorizon)
    /\ pc' = "return"
    /\ UNCHANGED <<call, pageVars>>

Call_calculateRiskMetrics ==
    /\ pc = "call"
    /\ call.fn = "calculateRiskMetrics"
    /\ ret' = calculateRiskMetrics(call.trades, call.scenario)
    /\ pc' = "return"
    /\ UNCHANGED <<call, pageVars>>

Call_generatePnLSensitivity ==
    /\ pc = "call"
    /\ call.fn = "generatePnLSensitivity"
    /\ ret' = generatePnLSensitivity(call.trades, call.baseRate, call.shockRange)
    /\ pc' = "return"
    /\ UNCHANGED <<call, pageVars>>

Next ==
    \/ Call_generateFXTrades
    \/ Call_calculateShockedFXRate
    \/ Call_calculateUnhedgedPnL
    \/ Call_calculateHedgeCost
    \/ Call_calculateOptimalHedgeRatio
    \/ Call_calculateVaR
    \/ Call_calculateRiskMetrics
    \/ Call_generatePnLSensitivity

Spec == Init /\ [][Next]_vars

---------------------------------------------------------------------------
(* The dashboard page in use.  A step is an event handler or a resumed     *)
(* runSimulation together with the render it causes, or the effects of the *)
(* last render together with theirs.  React runs the effects of a render   *)
(* after it and before it renders anything else, so every other step waits *)
(* for them.  The delays all last 500 ms, so they end in the order they   *)
(* were started.                                                           *)

PageInit ==
    /\ call = [fn |-> "Index"]
    /\ ret = Zero
    /\ pc = "page"
    /\ Unmounted

\* the dependency arrays of the two effects, as of the last render
CurrentDeps == <<parameters.numberOfTrades, Len(tradesState)>>

\* the last render's effects have not run yet
EffectsPending == deps # CurrentDeps

\* runSimulation up to its await: the call keeps the trades and the scenario
\* of the render that made it, and waits.  resetSince is a history mark, not
\* state of the page: resetParameters has run since the call was made.
StartRun(run, queue) ==
    Append(queue, [trades |-> run.trades, riskScenario |-> run.riskScenario,
                   resetSince |-> FALSE])

\* mutant: the regeneration effect declares no dependency and runs on mount only
RegenerationFires_MountOnly == deps = <<>>

\* mutant: the auto-run effect declares no dependency and runs on mount only
AutoRunFires_MountOnly == deps = <<>>

\* the regeneration effect, dependency parameters.numberOfTrades
RegenerationFires == deps = <<>> \/ deps[1] # parameters.numberOfTrades

\* the auto-run effect, dependency trades.length
AutoRunFires == deps = <<>> \/ deps[2] # Len(tradesState)

\* the effects of the last render, in the order they are declared
Effects ==
    /\ EffectsPending
    /\ IF RegenerationFires
       THEN \E seed \in BatchSeeds :
                tradesState' =
                    generateFXTrades(parameters.numberOfTrades, seed, BatchClock)
       ELSE UNCHANGED tradesState
    /\ IF AutoRunFires /\ Len(tradesState) > 0
       THEN /\ timers' = StartRun([trades |-> tradesState,
                                   riskScenario |-> riskScenario], timers)
            /\ isLoading' = TRUE
       ELSE UNCHANGED <<timers, isLoading>>
    /\ deps' = CurrentDeps
    /\ UNCHANGED <<parameters, riskScenario, riskMetrics, events, libVars>>

\* mutant: the memo depends on parameters.currentFXRate alone
UseMemo_RateOnly(nextParameters) ==
    IF nextParameters.currentFXRate # parameters.currentFXRate
    THEN ComputeRiskScenario(nextParameters)
    ELSE riskScenario

\* useMemo(..., [parameters]) in the render after setParameters: the memo is
\* recomputed when the parameters object is another one.  Every setParameters
\* call of the page builds a new object; one holding the same five values
\* recomputes the same scenario.
UseMemo(nextParameters) ==
    IF nextParameters # parameters
    THEN ComputeRiskScenario(nextParameters)
    ELSE riskScenario

\* a control of the panel is moved: setParameters with one key replaced
handleParameterChange ==
    /\ ~EffectsPending
    /\ events < MaxEvents
    /\ events' = events + 1
    /\ \E key \in DOMAIN Settings :
           \E value \in Settings[key] :
               parameters' = [parameters EXCEPT ![key] = value]
    /\ riskScenario' = UseMemo(parameters')
    /\ UNCHANGED <<tradesState, riskMetrics, isLoading, deps, timers, libVars>>

\* the Run Simulation button
runSimulation ==
    /\ ~EffectsPending
    /\ events < MaxEvents
    /\ events' = events + 1
    /\ timers' = StartRun([trades |-> tradesState, riskScenario |-> riskScenario],
                          timers)
    /\ isLoading' = TRUE
    /\ UNCHANGED <<parameters, tradesState, riskMetrics, riskScenario, deps, libVars>>

\* the oldest delay ends and its runSimulation call goes on after the await;
\* the render of what it sets comes after the effects still to run
runSimulation_Resume ==
    /\ ~EffectsPending
    /\ timers # <<>>
    /\ riskMetrics' = calculateRiskMetrics(Head(timers).trades,
                                           Head(timers).riskScenario)
    /\ isLoading' = FALSE
    /\ timers' = Tail(timers)
    /\ UNCHANGED <<parameters, tradesState, riskScenario, deps, events, libVars>>

\* the Reset button; the calls that are waiting go on waiting
resetParameters ==
    /\ ~EffectsPending
    /\ events < MaxEvents
    /\ events' = events + 1
    /\ parameters' = DefaultParameters
    /\ riskMetrics' = Null
    /\ riskScenario' = UseMemo(parameters')
    /\ timers' = [k \in 1..Len(timers) |-> [timers[k] EXCEPT !.resetSince = TRUE]]
    /\ UNCHANGED <<tradesState, isLoading, deps, libVars>>

PageNext ==
    \/ Effects
    \/ handleParameterChange
    \/ runSimulation
    \/ runSimulation_Resume
    \/ resetParameters

PageSpec == PageInit /\ [][PageNext]_vars

---------------------------------------------------------------------------
(* Properties *)

Returned(fn) == pc = "return" /\ call.fn = fn

\* 0 <= x <= 1, false of NaN
InUnitInterval(x) == Leq(Zero, x) /\ Leq(x, One)

\* C1: calculateOptimalHedgeRatio returns a ratio r with 0 <= r <= 1 for every
\* combination of finite inputs, the 0/0 combinations and a zero totalExposure
\* included; the result is never NaN.
C1_RatioInUnitInterval ==
    Returned("calculateOptimalHedgeRatio") => InUnitInterval(ret)

\* C2: calculateRiskMetrics on an empty trade list treats costPenalty as 0: the
\* optimal hedge ratio comes from volatilityBenefit = volatility x 0.5 alone and
\* lies in [0, 1], hedgedPnL is a defined number and no field is NaN.
C2_EmptyBookMetricsDefined ==
    (Returned("calculateRiskMetrics") /\ Len(call.trades) = 0) =>
        LET volatilityBenefit == Mul(call.scenario.volatility, R(1, 2))
        IN  /\ InUnitInterval(ret.optimalHedgeRatio)
            /\ ~IsZero(volatilityBenefit) =>
                   ret.optimalHedgeRatio =
                       MathMax(Zero, MathMin(One, Div(volatilityBenefit,
                                                      Add(volatilityBenefit, Zero))))
            /\ ~IsNaN(ret.hedgedPnL)
            /\ ~IsNaN(ret.totalExposureUSD)
            /\ ~IsNaN(ret.totalPnL)
            /\ ~IsNaN(ret.unhedgedPnL)
            /\ ~IsNaN(ret.hedgeCost)
            /\ ~IsNaN(ret.valueAtRisk.q)

\* the sum of the notionals of trades[1..k]
RECURSIVE SumNotionals(_, _)
SumNotionals(trades, k) ==
    IF k = 0 THEN Zero
    ELSE Add(SumNotionals(trades, k - 1), trades[k].notionalUSD)

\* C3: for a non-empty trade list calculateRiskMetrics returns the fixed
\* pipeline: totalExposureUSD is the sum of the notionals, unhedgedPnL the P&L
\* between currentFXRate and shockedFXRate, hedgeCost = totalExposureUSD x
\* (currentFXRate x (1 + interestRateShock/10000 x 0.25) - currentFXRate),
\* optimalHedgeRatio the optimizer's value at risk aversion 0.5, hedgedPnL =
\* unhedgedPnL x (1 - ratio) - hedgeCost x ratio, and totalPnL = unhedgedPnL.
C3_MetricsArePipeline ==
    (Returned("calculateRiskMetrics") /\ Len(call.trades) > 0) =>
        LET sc == call.scenario
            total == SumNotionals(call.trades, Len(call.trades))
            unhedged ==
                calculateUnhedgedPnL(call.trades, sc.currentFXRate, sc.shockedFXRate)
            cost ==
                Mul(total,
                    Sub(Mul(sc.currentFXRate,
                            Add(One, Mul(Div(sc.interestRateShock, R(10000, 1)),
                                         R(25, 100)))),
                        sc.currentFXRate))
            ratio == calculateOptimalHedgeRatio(total, sc.volatility, cost, R(1, 2))
        IN  /\ ret.totalExposureUSD = total
            /\ ret.unhedgedPnL = unhedged
            /\ ret.hedgeCost = cost
            /\ ret.optimalHedgeRatio = ratio
            /\ ret.hedgedPnL = Sub(Mul(unhedged, Sub(One, ratio)), Mul(cost, ratio))
            /\ ret.totalPnL = ret.unhedgedPnL

\* C3 witness: a two-trade book under a shock, hedged in part
C3_Witness ==
    /\ Returned("calculateRiskMetrics")
    /\ Len(call.trades) = 2
    /\ Lt(Zero, ret.optimalHedgeRatio)
    /\ Lt(ret.optimalHedgeRatio, One)
    /\ ~IsZero(ret.hedgeCost)
    /\ ~IsZero(ret.unhedgedPnL)
    /\ ret.hedgedPnL # ret.unhedgedPnL

\* the other direction
Flip(direction) == IF direction = "long" THEN "short" ELSE "long"

C5_DirectionAntisymmetric ==
    (Returned("calculateUnhedgedPnL") /\ Len(call.trades) = 1) =>
        LET trade == call.trades[1]
            flipped == [trade EXCEPT !.direction = Flip(trade.direction)]
            contribution ==
                Mul(trade.notionalUSD, Sub(call.shockedRate, call.currentRate))
        IN  /\ trade.direction = "long" => ret = contribution
            /\ trade.direction = "short" => ret = Neg(contribution)
            /\ calculateUnhedgedPnL(<<flipped>>, call.currentRate, call.shockedRate)
                   = Neg(ret)

\* C5 witness: a single short trade that gains on a falling rate
C5_Witness ==
    /\ Returned("calculateUnhedgedPnL")
    /\ Len(call.trades) = 1
    /\ call.trades[1].direction = "short"
    /\ Lt(call.shockedRate, call.currentRate)
    /\ Lt(Zero, ret)

\* C6: calculateShockedFXRate returns the spot rate unchanged when the shock
\* is 0 bps and when the time fraction is 0 (negative shocks included), and
\* spot x (1 + shockBps/10000 x timeFraction) otherwise.
C6_ShockedRate ==
    Returned("calculateShockedFXRate") =>
        LET spot == call.currentRate
            bps == call.interestRateShockBps
            t == call.timeToMaturity
        IN  /\ IsZero(bps) => ret = spot
            /\ IsZero(t) => ret = spot
            /\ (~IsZero(bps) /\ ~IsZero(t)) =>
                   /\ ret = Add(spot, Div(Mul(Mul(spot, bps), t), R(10000, 1)))
                   /\ IsZero(spot) \/ ret # spot

\* C6 witness: a negative shock over a zero time fraction leaves the spot rate
C6_Witness ==
    /\ Returned("calculateShockedFXRate")
    /\ call.interestRateShockBps = R(-200, 1)
    /\ IsZero(call.timeToMaturity)
    /\ call.currentRate = R(465, 100)
    /\ ret = call.currentRate

RatesSweepRange(points) ==
    /\ points[1].fxRate = Sub(call.baseRate, call.shockRange)
    /\ points[Len(points)].fxRate = Add(call.baseRate, call.shockRange)
    /\ \A k \in 1..(Len(points) - 1) : Lt(points[k].fxRate, points[k + 1].fxRate)

BatchWellFormed ==
    /\ Len(ret) = call.count
    /\ Cardinality({ret[k].id : k \in 1..Len(ret)}) = Len(ret)
    /\ \A k \in 1..Len(ret) :
           /\ Leq(R(50000, 1), ret[k].notionalUSD)
           /\ Lt(ret[k].notionalUSD, R(2050000, 1))

\* C9, as claimed: generateFXTrades(N) returns N trades, no two with the same
\* id (N > 1000 included), each notional in [50000, 2050000) and each
\* maturityDate strictly later than its tradeDate, whatever the random source
\* and the clock yield.
C9_BatchAnyClock ==
    Returned("generateFXTrades") =>
        /\ BatchWellFormed
        /\ \A k \in 1..Len(ret) : ret[k].maturityDate > ret[k].tradeDate

\* C9, amended: the same, with maturityDate strictly later than tradeDate for
\* every trade whose second clock reading (taken for maturityDate) is less
\* than 30 days earlier than its first (taken for tradeDate), as under any
\* clock that does not run backwards; the other parts hold under any clock.
C9_BatchSaneClock ==
    Returned("generateFXTrades") =>
        /\ BatchWellFormed
        /\ call.clock.within > -30 * TicksPerDay =>
               \A k \in 1..Len(ret) : ret[k].maturityDate > ret[k].tradeDate

\* C9 witness: a batch of more than 1000 trades, the last id four digits long,
\* generated while the clock steps back a tick short of 30 days within each
\* pass and 30 days between passes
C9_Witness ==
    /\ Returned("generateFXTrades")
    /\ call.count > 1000
    /\ call.clock.within = 1 - 30 * TicksPerDay
    /\ call.clock.between = -30 * TicksPerDay
    /\ Len(ret) = call.count
    /\ Len(ret[Len(ret)].id) = 7
    /\ ret[1].direction # ret[2].direction

\* C10: for totalExposure > 0 and non-negative volatility, riskAversion and
\* |hedgeCost|, with the other inputs fixed, a higher volatility never lowers
\* the ratio, a higher riskAversion never lowers it, and a higher relative
\* hedge cost |hedgeCost| / totalExposure never raises it.
C10_RatioMonotone ==
    (/\ Returned("calculateOptimalHedgeRatio")
     /\ Lt(Zero, call.totalExposure)
     /\ Leq(Zero, call.expectedVolatility)
     /\ Leq(Zero, call.riskAversion)) =>
        LET exposure == call.totalExposure
            vol == call.expectedVolatility
            cost == call.hedgeCost
            aversion == call.riskAversion
            relative == Div(MathAbs(cost), exposure)
        IN  /\ \A vol2 \in Grid :
                   Lt(vol, vol2) =>
                       ~Lt(calculateOptimalHedgeRatio(exposure, vol2, cost, aversion), ret)
            /\ \A aversion2 \in Grid :
                   Lt(aversion, aversion2) =>
                       ~Lt(calculateOptimalHedgeRatio(exposure, vol, cost, aversion2), ret)
            /\ \A exposure2 \in PositiveGrid, cost2 \in Grid :
                   Lt(relative, Div(MathAbs(cost2), exposure2)) =>
                       ~Lt(ret, calculateOptimalHedgeRatio(exposure2, vol, cost2, aversion))

\* C10 witness: a ratio strictly between 0 and 1, which a higher volatility
\* raises and a higher hedge cost lowers
C10_Witness ==
    /\ Returned("calculateOptimalHedgeRatio")
    /\ Lt(Zero, call.totalExposure)
    /\ Lt(Zero, ret)
    /\ Lt(ret, One)
    /\ \E vol2 \in Grid :
           Lt(ret, calculateOptimalHedgeRatio(call.totalExposure, vol2, call.hedgeCost,
                                              call.riskAversion))
    /\ \E cost2 \in Grid :
           Lt(calculateOptimalHedgeRatio(call.totalExposure, call.expectedVolatility,
                                         cost2, call.riskAversion), ret)

---------------------------------------------------------------------------
(* The dashboard page *)

\* the batches generateFXTrades can hand the page for a trade count
FreshBatches(count) ==
    {generateFXTrades(count, seed, BatchClock) : seed \in BatchSeeds}

\* what a step of the page does to the batch: it changes only in the effects
\* of a render whose trade count differs from the one before, and then into a
\* freshly generated batch of that count; a step that changes the parameters
\* or starts or completes a simulation leaves it as it is
BatchStep ==
    /\ (deps' # deps /\ RegenerationFires)
           => tradesState' \in FreshBatches(parameters.numberOfTrades)
    /\ tradesState' # tradesState => (deps' # deps /\ RegenerationFires)
    /\ (parameters' # parameters \/ timers' # timers \/ riskMetrics' # riskMetrics)
           => tradesState' = tradesState

\* C11: once the effects of the last render have run, the batch held in state
\* has exactly parameters.numberOfTrades trades; it is replaced by a freshly
\* generated batch whenever numberOfTrades has changed, and no other parameter
\* change, reset or simulation run changes it.
C11_BatchFollowsCount ==
    /\ [](~EffectsPending => Len(tradesState) = parameters.numberOfTrades)
    /\ [][BatchStep]_vars

\* a batch of 150 regenerated after the count was moved, another parameter
\* moved since, and a simulation completed
C11_Witness ==
    /\ ~EffectsPending
    /\ parameters.numberOfTrades = 3 * TradesPerFifty
    /\ Len(tradesState) = 3 * TradesPerFifty
    /\ parameters.volatility # DefaultParameters.volatility
    /\ riskMetrics # Null
    /\ riskMetrics.totalExposureUSD = ReduceNotional(tradesState, Zero)

\* currentFXRate x (1 + interestRateShock / 10000 x timeHorizon / 365)
ShockedRateOf(params) ==
    Mul(params.currentFXRate,
        Add(One, Mul(Div(params.interestRateShock, R(10000, 1)),
                     Div(params.timeHorizon, R(365, 1)))))

StaleRunResumes ==
    /\ timers # <<>>
    /\ Head(timers).resetSince
    /\ timers' = Tail(timers)

\* C13: after resetParameters has set riskMetrics to null it stays null until
\* a run started after the reset completes: a run that was waiting in its
\* delay when the reset happened writes no metrics when its delay ends.
C13_ResetOutlivesPendingRuns == [][StaleRunResumes => riskMetrics' = Null]_vars

\* the metrics on display are those of the batch held in state
MetricsOfCurrentBatch ==
    riskMetrics.totalExposureUSD = ReduceNotional(tradesState, Zero)

\* C14 as stated: whenever no runSimulation call is waiting and riskMetrics is
\* not null, riskMetrics.totalExposureUSD is the sum of the notionals of the
\* trades held in state.
C14_MetricsMatchBatch ==
    (timers = <<>> /\ riskMetrics # Null) => MetricsOfCurrentBatch

\* C14, amended: the same once the effects of the last render have run.
C14_MetricsMatchBatchAfterEffects ==
    (~EffectsPending /\ timers = <<>> /\ riskMetrics # Null) => MetricsOfCurrentBatch

\* the trade count moved to 50, the batch of 50 generated, its auto-run and
\* every other run completed
C14_Witness ==
    /\ ~EffectsPending
    /\ timers = <<>>
    /\ riskMetrics # Null
    /\ parameters.numberOfTrades = TradesPerFifty
    /\ riskMetrics.totalExposureUSD = ReduceNotional(tradesState, Zero)
    /\ events = MaxEvents

---------------------------------------------------------------------------
(* The hedge ratio and the trade book *)

\* clamp(x, 0, 1)
ClampUnit(x) == MathMax(Zero, MathMin(One, x))

\* clamp(v / (v + |currentFXRate x interestRateShock / 10000 x 0.25|), 0, 1)
\* with v = volatility x 0.5
BookFreeRatio(scenario) ==
    LET v == Mul(scenario.volatility, R(1, 2))
        perDollarCost ==
            MathAbs(Mul(Mul(scenario.currentFXRate,
                            Div(scenario.interestRateShock, R(10000, 1))),
                        R(1, 4)))
    IN  ClampUnit(Div(v, Add(v, perDollarCost)))

\* the books of one trade
OneTradeBooks == {book \in TradeLists : Len(book) = 1}

=============================================================================
